---------------------------- MODULE Spec2Model ----------------------------
(***************************************************************************)
(* usb3_pipe: the ordered-set checker and generator of                     *)
(* usb3_pipe/ordered_set.py, and the LFPS burst transmitter exercised by   *)
(* test/test_lfps.py, as synchronous state machines.                       *)
(*                                                                         *)
(* One step of a specification is one clock tick.  The registers of a      *)
(* module and the input signals driven into it are the state; the          *)
(* combinatorial signals (error, detected, done, source.valid, ...) are    *)
(* state functions of them.  A tick computes every register's next value   *)
(* from the current state, as migen's sync statements do, and then drives  *)
(* new input values.                                                       *)
(*                                                                         *)
(* A 32-bit word is held as its four bytes, least significant first (the   *)
(* order of int.from_bytes(..., "little")), because TLC's integers are     *)
(* 32-bit signed: bit i of the word is bit i % 8 of byte i \div 8.         *)
(***************************************************************************)
EXTENDS Integers, Sequences, FiniteSets, TLC

VARIABLES
    os,             \* ordered_set.name of the instance(s): "TSEQ", "TS1", "TS2"
    \* ---- OrderedSetChecker
    sink_valid,     \* sink.valid   (input)
    sink_data,      \* sink.data    (input, 4 bytes)
    sink_ctrl,      \* sink.ctrl    (input, 0..15)
    chk_adr,        \* port.adr of the checker's memory port
    chk_count,      \* count
    chk_reset,      \* reset      (o, TS1/TS2 only)
    chk_loopback,   \* loopback   (o, TS1/TS2 only)
    chk_scrambling, \* scrambling (o, TS1/TS2 only)
    \* ---- OrderedSetGenerator
    send,           \* send (input)
    source_ready,   \* source.ready (input)
    gen_reset,      \* reset      (i, TS1/TS2 only)
    gen_loopback,   \* loopback   (i, TS1/TS2 only)
    gen_scrambling, \* scrambling (i, TS1/TS2 only)
    gen_adr,        \* port.adr of the generator's memory port
    gen_count,      \* count
    run,            \* run
    \* ---- observers (history of the run, read by the properties only)
    chk_good,       \* valid error-free symbols consumed since the last error
    chk_prev,       \* what the checker saw on the tick just executed
    chk_streak,     \* error-free symbols consumed in a row, modulo depth*N
    gen_started,    \* a burst has been started since reset
    gen_sent,       \* symbols transferred since the start of the burst
    gen_whole,      \* those symbols were pattern[0], pattern[1], ... in order, with
                    \* the link-config byte in bits 8-15 of word 1
    gen_exact,      \* those symbols were exactly pattern[0], pattern[1], ...
    gen_age,        \* ticks executed since the burst was started, the tick of
                    \* send & done included (saturating at depth*N)
    gen_stalled,    \* the consumer has stalled a symbol of the burst
    \* ---- LFPSBurstTransmitter
    start,          \* start  (input)
    length,         \* length (input)
    bt_run,         \* the transmitter is bursting
    bt_count,       \* ticks of the burst still to go
    bt_done,        \* done
    clk,            \* level of the burst clock
    clk_timer,      \* ticks the burst clock has held its level
    \* ---- test_lfps_burst_transmitter: the three generators of the test
    bg_pc,          \* burst_generator: where it is suspended
    bg_i,           \* burst_generator: i of the outer loop
    bg_gap,         \* burst_generator: yields done of the 256 after a burst
    bg_length,      \* burst_generator: burst_length
    bcc,            \* burst_clk_checker: transitions, ones_ticks, zeroes_ticks, tx_pattern
    blc,            \* burst_length_checker: transitions, ticks, tx_idle
    \* ---- observer of the burst line since the last start pulse
    ob,             \* started, nonidle, runs, dones, idle
    \* ---- LFPSTransmitter: the polling sequencer around the burst transmitter
    polling,        \* polling (input)
    seq_timer,      \* ticks since the start of the repeat period
    \* ---- test_lfps_transmitter: the two generators of the test
    lg_pc,          \* lfps_generator: where it is suspended
    lg_i,           \* lfps_generator: yields done of the int(1e4)
    lc              \* lfps_checker: bursts, burst_ticks, total_ticks, tx_idle

vars == << os, sink_valid, sink_data, sink_ctrl, chk_adr, chk_count, chk_reset,
           chk_loopback, chk_scrambling, send, source_ready, gen_reset,
           gen_loopback, gen_scrambling, gen_adr, gen_count, run,
           chk_good, chk_prev, chk_streak, gen_started, gen_sent, gen_whole,
           gen_exact, gen_age, gen_stalled,
           start, length, bt_run, bt_count, bt_done, clk, clk_timer,
           bg_pc, bg_i, bg_gap, bg_length, bcc, blc, ob,
           polling, seq_timer, lg_pc, lg_i, lc >>

chk_regs == << chk_adr, chk_count, chk_reset, chk_loopback, chk_scrambling >>
chk_ins  == << sink_valid, sink_data, sink_ctrl >>
gen_regs == << gen_adr, gen_count, run >>
gen_ins  == << send, source_ready, gen_reset, gen_loopback, gen_scrambling >>
gen_obs  == << gen_started, gen_sent, gen_whole, gen_exact, gen_age, gen_stalled >>
poll_vars == << polling, seq_timer, lg_pc, lg_i, lc >>
lfps_vars == << start, length, bt_run, bt_count, bt_done, clk, clk_timer,
               bg_pc, bg_i, bg_gap, bg_length, bcc, blc, ob,
               polling, seq_timer, lg_pc, lg_i, lc >>
chk_obs  == << chk_good, chk_prev, chk_streak >>

---------------------------------------------------------------------------
(* Bounds of the model *)

\* n_ordered_sets of the instances
N_ORDERED_SETS == 3

\* besides the test's burst_length, bursts of 1 .. MaxShortBurst ticks are driven
MaxShortBurst == 3

---------------------------------------------------------------------------
(* Bits and words *)

RECURSIVE BitAnd(_, _, _)
\* a & b over the low n bits
BitAnd(a, b, n) ==
    IF n = 0 THEN 0
    ELSE (a % 2) * (b % 2) + 2 * BitAnd(a \div 2, b \div 2, n - 1)

RECURSIVE BitXor(_, _, _)
\* a ^ b over the low n bits
BitXor(a, b, n) ==
    IF n = 0 THEN 0
    ELSE ((a + b) % 2) + 2 * BitXor(a \div 2, b \div 2, n - 1)

RECURSIVE bits_for(_)
\* migen's bits_for(n): the width of an unsigned signal that holds n
bits_for(n) == IF n < 2 THEN 1 ELSE 1 + bits_for(n \div 2)

\* bit i (0..7) of byte b
ByteBit(b, i) == (b \div (2 ^ i)) % 2

\* w[i] of a 32-bit signal w, as a boolean
WordBit(w, i) == ByteBit(w[(i \div 8) + 1], i % 8) = 1

\* a & b of two 32-bit signals
WordAnd(a, b) == [k \in 1..4 |-> BitAnd(a[k], b[k], 8)]

\* w with w[8:16] replaced by the 8-bit value v
WithBits8to15(w, v) == [w EXCEPT ![2] = v % 256]

\* w with byte k (1..4) xor-ed with d: an input that differs from w in the bits of d
XorByte(w, k, d) == [w EXCEPT ![k] = BitXor(w[k], d, 8)]

BoolBit(b) == IF b THEN 1 ELSE 0

---------------------------------------------------------------------------
(* The ordered sets of usb3_pipe.common *)

COM == 188   \* K28.5, 0xBC
D10_2 == 74  \* 0x4A, the TS1 identifier
D5_2 == 69   \* 0x45, the TS2 identifier

\* ordered_set.to_bytes()
to_bytes(name) ==
    CASE name = "TS1" ->
           << COM, COM, COM, COM, 0, 0, D10_2, D10_2,
              D10_2, D10_2, D10_2, D10_2, D10_2, D10_2, D10_2, D10_2 >>
      [] name = "TS2" ->
           << COM, COM, COM, COM, 0, 0, D5_2, D5_2,
              D5_2, D5_2, D5_2, D5_2, D5_2, D5_2, D5_2, D5_2 >>
      [] name = "TSEQ" ->
           << COM, 255, 23, 192, 20, 178, 231, 2,
              130, 114, 110, 40, 166, 190, 109, 191,
              D10_2, D10_2, D10_2, D10_2, D10_2, D10_2, D10_2, D10_2,
              D10_2, D10_2, D10_2, D10_2, D10_2, D10_2, D10_2, D10_2 >>

OrderedSets == {"TSEQ", "TS1", "TS2"}

\* ordered_set.name in ["TS1", "TS2"]
IsTS == os \in {"TS1", "TS2"}

\* mem_depth = len(ordered_set.to_bytes())//4
mem_depth == Len(to_bytes(os)) \div 4

\* mem_init[i], i in 0 .. mem_depth-1: bytes 4i .. 4i+3, little endian
mem_init(i) == SubSeq(to_bytes(os), 4 * i + 1, 4 * i + 4)

\* first_ctrl = 2**4 - 1 for TS1/TS2, 1 otherwise
first_ctrl == IF IsTS THEN 2 ^ 4 - 1 ELSE 1

\* mem_depth*n_ordered_sets, the max of both count signals
count_max == mem_depth * N_ORDERED_SETS

\* the width of Signal(max=mem_depth*n_ordered_sets)
count_bits == bits_for(count_max - 1)

---------------------------------------------------------------------------
(* OrderedSetChecker: combinatorial signals *)

\* self.comb += self.sink.ready.eq(1)
sink_ready == TRUE

\* error_mask, with 0xffff00ff at port.adr == 1 for every ordered set
error_mask_every_set ==
    IF chk_adr = 1 THEN << 255, 0, 255, 255 >>
    ELSE << 255, 255, 255, 255 >>

\* error_mask: reset 2**32-1; 0xffff00ff while port.adr == 1 for TS1/TS2
error_mask ==
    IF IsTS /\ chk_adr = 1 THEN << 255, 0, 255, 255 >>
    ELSE << 255, 255, 255, 255 >>

\* the error decision for a symbol (data, ctrl) at the sink while sink.valid
error_of(data, ctrl) ==
    \/ (chk_adr = 0 /\ ctrl # first_ctrl)
    \/ (chk_adr # 0 /\ ctrl # 0)
    \/ WordAnd(data, error_mask) # WordAnd(mem_init(chk_adr), error_mask)

\* error, without the ctrl check of the words after word 0
error_ctrl_unchecked ==
    /\ sink_valid
    /\ \/ (chk_adr = 0 /\ sink_ctrl # first_ctrl)
       \/ WordAnd(sink_data, error_mask) # WordAnd(mem_init(chk_adr), error_mask)

\* error
error == sink_valid /\ error_of(sink_data, sink_ctrl)

\* detected, one symbol earlier
detected_early == chk_count = count_max - 2

\* self.detected
detected == chk_count = count_max - 1

---------------------------------------------------------------------------
(* OrderedSetChecker: registers after the tick *)

\* the Link Config sync block, with the generator's bit positions 8, 9, 10
chk_link_config_next_packed ==
    IF IsTS /\ sink_valid /\ chk_adr = 1
    THEN << WordBit(sink_data, 8), WordBit(sink_data, 9), ~WordBit(sink_data, 10) >>
    ELSE << chk_reset, chk_loopback, chk_scrambling >>

\* the Link Config sync block: the three flags after the tick
chk_link_config_next ==
    IF IsTS /\ sink_valid /\ chk_adr = 1
    THEN << WordBit(sink_data, 8), WordBit(sink_data, 10), ~WordBit(sink_data, 11) >>
    ELSE << chk_reset, chk_loopback, chk_scrambling >>

\* the Memory address generation sync block, with the generator's Else:
\* the cursor returns to 0 on a tick without a valid symbol
chk_adr_next_idle_reset ==
    IF sink_valid
    THEN IF ~error
         THEN IF chk_adr = mem_depth - 1 THEN 0 ELSE chk_adr + 1
         ELSE 0
    ELSE 0

\* the Memory address generation sync block, with a cursor that stays where
\* it is on an error
chk_adr_next_hold_on_error ==
    IF sink_valid
    THEN IF ~error
         THEN IF chk_adr = mem_depth - 1 THEN 0 ELSE chk_adr + 1
         ELSE chk_adr
    ELSE chk_adr

\* the Memory address generation sync block
chk_adr_next ==
    IF sink_valid
    THEN IF ~error
         THEN IF chk_adr = mem_depth - 1 THEN 0 ELSE chk_adr + 1
         ELSE 0
    ELSE chk_adr

\* the Count sync block, with a counter that holds its value once detected
chk_count_next_frozen ==
    IF sink_valid
    THEN IF error THEN 0
         ELSE IF detected THEN chk_count
         ELSE (chk_count + 1) % (2 ^ count_bits)
    ELSE chk_count

\* the Count sync block, without the ~detected condition
chk_count_next_unguarded ==
    IF sink_valid
    THEN IF ~error
         THEN (chk_count + 1) % (2 ^ count_bits)
         ELSE 0
    ELSE chk_count

\* the Count sync block
chk_count_next ==
    IF sink_valid
    THEN IF ~error /\ ~detected
         THEN (chk_count + 1) % (2 ^ count_bits)
         ELSE 0
    ELSE chk_count

\* observer: error-free symbols consumed in a row (saturating at count_max)
chk_good_next ==
    IF sink_valid
    THEN IF error THEN 0
         ELSE IF chk_good < count_max THEN chk_good + 1 ELSE chk_good
    ELSE chk_good

\* the symbol at the sink has a wrong ctrl for the cursor position
WrongCtrl ==
    \/ (chk_adr = 0 /\ sink_ctrl # first_ctrl)
    \/ (chk_adr > 0 /\ sink_ctrl # 0)

\* bit i of the word at the cursor is a link-config bit, which is not compared
MaskedBit(i) == IsTS /\ chk_adr = 1 /\ i \in 8..15

\* the symbol at the sink differs from pattern[adr] in a bit that is compared
WrongData ==
    \E i \in 0..31 :
        ~MaskedBit(i) /\ WordBit(sink_data, i) # WordBit(mem_init(chk_adr), i)

\* observer: the tick being executed, as the next state remembers it
chk_prev_next ==
    [ valid |-> sink_valid,
      corrupted |-> sink_valid /\ (WrongCtrl \/ WrongData),
      det |-> detected,
      count |-> chk_count,
      adr |-> chk_adr,
      word1 |-> IF IsTS /\ sink_valid /\ chk_adr = 1 THEN sink_data ELSE << >> ]

\* observer: error-free symbols consumed in a row, counted modulo depth*N
chk_streak_next ==
    IF sink_valid
    THEN IF error THEN 0 ELSE (chk_streak + 1) % count_max
    ELSE chk_streak

\* all sync blocks of the checker, executed on one clock edge
CheckerSync ==
    /\ chk_reset' = chk_link_config_next[1]
    /\ chk_loopback' = chk_link_config_next[2]
    /\ chk_scrambling' = chk_link_config_next[3]
    /\ chk_adr' = chk_adr_next
    /\ chk_count' = chk_count_next
    /\ chk_good' = chk_good_next
    /\ chk_prev' = chk_prev_next
    /\ chk_streak' = chk_streak_next

---------------------------------------------------------------------------
(* OrderedSetGenerator: combinatorial signals *)

\* self.done
done == gen_count = count_max - 1

\* link_config: bit 0 reset, bit 1 loopback, bit 2 ~scrambling (0 otherwise)
link_config ==
    IF IsTS
    THEN BoolBit(gen_reset) + 2 * BoolBit(gen_loopback) + 4 * BoolBit(~gen_scrambling)
    ELSE 0

\* source.valid, following send alone
source_valid_send_only == send

\* source.valid
source_valid == send \/ ~done

\* source.ctrl, with the comma marker on every word
source_ctrl_always_first == first_ctrl

\* source.ctrl
source_ctrl == IF gen_adr = 0 THEN first_ctrl ELSE 0

\* source.data: port.dat_r, with [8:16] = link_config at adr 1 for TS1/TS2
source_data ==
    IF IsTS /\ gen_adr = 1
    THEN WithBits8to15(mem_init(gen_adr), link_config)
    ELSE mem_init(gen_adr)

---------------------------------------------------------------------------
(* OrderedSetGenerator: registers after the tick *)

\* the Memory address generation sync block
gen_adr_next ==
    IF source_valid /\ source_ready
    THEN IF gen_adr = mem_depth - 1 THEN 0 ELSE gen_adr + 1
    ELSE 0

\* the Count sync block: count, without the Elif(done) branch
gen_count_next_no_hold ==
    IF send /\ done THEN 0
    ELSE (gen_count + 1) % (2 ^ count_bits)

\* the Count sync block: count, advancing on transferred symbols only
gen_count_next_on_transfer ==
    IF send /\ done THEN 0
    ELSE IF done THEN gen_count
    ELSE IF source_ready THEN (gen_count + 1) % (2 ^ count_bits)
    ELSE gen_count

\* the Count sync block: count
gen_count_next ==
    IF send /\ done THEN 0
    ELSE IF done THEN gen_count
    ELSE (gen_count + 1) % (2 ^ count_bits)

\* the Count sync block: run
run_next ==
    IF send /\ done THEN TRUE
    ELSE IF done THEN FALSE
    ELSE run

\* the k-th symbol (k = 0, 1, ...) of an uncut stream is pattern[k mod depth],
\* with ctrl = first_ctrl on word 0 and 0 on the others
ExactSymbol(k, data, ctrl) ==
    LET a == k % mem_depth
    IN  /\ ctrl = (IF a = 0 THEN first_ctrl ELSE 0)
        /\ data = mem_init(a)

\* the same, with bits 8-15 of word 1 of a training pattern holding the byte
\* cfg (bit 8 reset, bit 9 loopback, bit 10 not scrambling) instead
ConfiguredSymbol(k, data, ctrl, cfg) ==
    LET a == k % mem_depth
    IN  /\ ctrl = (IF a = 0 THEN first_ctrl ELSE 0)
        /\ data = (IF IsTS /\ a = 1 THEN WithBits8to15(mem_init(a), cfg)
                   ELSE mem_init(a))

\* observers of the generator's stream
GenObserve ==
    LET begin == send /\ done
        xfer  == source_valid /\ source_ready
        base  == IF begin THEN 0 ELSE gen_sent
        ok    == IF begin THEN TRUE ELSE gen_whole
        exact == IF begin THEN TRUE ELSE gen_exact
        cfg   == BoolBit(gen_reset) + 2 * BoolBit(gen_loopback)
                     + 4 * BoolBit(~gen_scrambling)
    IN  /\ gen_started' = (gen_started \/ begin)
        /\ gen_sent' = (IF xfer THEN base + 1 ELSE base)
        /\ gen_whole' = (IF xfer
                         THEN ok /\ ConfiguredSymbol(base, source_data, source_ctrl, cfg)
                         ELSE ok)
        /\ gen_exact' = (IF xfer
                         THEN exact /\ ExactSymbol(base, source_data, source_ctrl)
                         ELSE exact)
        /\ gen_age' = (IF begin THEN 1
                       ELSE IF gen_age < count_max THEN gen_age + 1 ELSE gen_age)
        /\ gen_stalled' = (IF begin THEN source_valid /\ ~source_ready
                           ELSE gen_stalled \/ (source_valid /\ ~source_ready))

\* all sync blocks of the generator, executed on one clock edge
GeneratorSync ==
    /\ gen_adr' = gen_adr_next
    /\ gen_count' = gen_count_next
    /\ run' = run_next
    /\ GenObserve

---------------------------------------------------------------------------
(* LFPSBurstTransmitter (usb3_pipe/lfps.py), as the specification describes *)
(* the burst oscillator: start (pulse) and length in; tx_idle, tx_pattern   *)
(* and done (pulse) out.                                                    *)

\* sys_clk_freq and lfps_clk_freq of the test
sys_clk_freq == 100000000
lfps_clk_freq == 25000000

\* ticks per half period of the burst clock: sys_clk_freq / (2*lfps_clk_freq),
\* rounded to the nearest tick; the burst clock holds a level for twice as long
half_period_doubled == (sys_clk_freq + lfps_clk_freq) \div lfps_clk_freq

\* ticks per half period of the burst clock: sys_clk_freq / (2*lfps_clk_freq),
\* rounded to the nearest tick
half_period == (sys_clk_freq + lfps_clk_freq) \div (2 * lfps_clk_freq)

\* tx_idle: true when not bursting
tx_idle == ~bt_run

\* tx_pattern: the burst clock while bursting
tx_pattern == IF bt_run THEN clk ELSE 0

\* a start pulse with a length of at least one tick begins a burst
bt_starting == ~bt_run /\ start /\ length > 0

\* the burst's tick count, loaded with twice the length
bt_count_next_twice ==
    IF bt_run THEN bt_count - 1
    ELSE IF bt_starting THEN 2 * length
    ELSE 0

\* the burst's tick count: loaded with length by start, one less every tick
bt_count_next ==
    IF bt_run THEN bt_count - 1
    ELSE IF bt_starting THEN length
    ELSE 0

\* bursting lasts until the tick count is exhausted
bt_run_next == IF bt_run THEN bt_count > 1 ELSE bt_starting

\* done: a pulse when the tick count is exhausted (at once for a length of 0)
bt_done_next ==
    \/ bt_run /\ bt_count = 1
    \/ ~bt_run /\ start /\ length = 0

\* the burst clock alternates 0/1, holding each level for half_period ticks;
\* its phase at the start of a burst is not specified
BurstClock ==
    IF bt_starting
    THEN clk' \in {0, 1} /\ clk_timer' \in 0 .. half_period - 1
    ELSE IF bt_run /\ bt_count > 1
    THEN IF clk_timer >= half_period - 1
         THEN clk' = 1 - clk /\ clk_timer' = 0
         ELSE clk' = clk /\ clk_timer' = clk_timer + 1
    ELSE clk' = 0 /\ clk_timer' = 0

\* the transmitter's registers after the tick
BurstTransmitterSync ==
    /\ bt_run' = bt_run_next
    /\ bt_count' = bt_count_next
    /\ bt_done' = bt_done_next
    /\ BurstClock

---------------------------------------------------------------------------
(* test_lfps_burst_transmitter: the generators run_simulation steps on     *)
(* every tick.  A generator reads the signals of the tick; what it writes  *)
(* is seen from the next tick on.                                          *)

\* nbursts and burst_length of the test, and the idle yields after a burst
nbursts == 8
burst_length == 256
idle_yields == 256

\* the lengths driven: the test's, and short ones
BurstLengths == {burst_length} \cup (1 .. MaxShortBurst)

\* burst_generator leaves its last loop on this tick and clears dut.run
bg_finishing == bg_pc = "gap" /\ bg_gap = idle_yields /\ bg_i = nbursts - 1

\* burst_generator, from where it is suspended to its next yield
burst_generator ==
    CASE bg_pc = "start" ->
           \* length.eq(burst_length), start.eq(1), yield
           /\ length' = bg_length /\ start' = TRUE
           /\ bg_pc' = "clear" /\ UNCHANGED << bg_i, bg_gap >>
      [] bg_pc \in {"clear", "wait"} ->
           \* (start.eq(0),) while not done: yield; then the first idle yield
           /\ start' = FALSE /\ UNCHANGED << length, bg_i >>
           /\ IF bt_done
              THEN bg_pc' = "gap" /\ bg_gap' = 1
              ELSE bg_pc' = "wait" /\ bg_gap' = bg_gap
      [] bg_pc = "gap" /\ bg_gap < idle_yields ->
           /\ bg_gap' = bg_gap + 1
           /\ UNCHANGED << start, length, bg_pc, bg_i >>
      [] bg_pc = "gap" /\ bg_gap = idle_yields /\ bg_i < nbursts - 1 ->
           \* the next burst: length.eq(burst_length), start.eq(1), yield
           /\ length' = bg_length /\ start' = TRUE
           /\ bg_pc' = "clear" /\ bg_i' = bg_i + 1 /\ bg_gap' = 0
      [] bg_finishing ->
           \* dut.run = False
           /\ bg_pc' = "end"
           /\ UNCHANGED << start, length, bg_i, bg_gap >>

\* burst_clk_checker: one pass of its while loop
burst_clk_checker ==
    IF ~tx_idle
    THEN [ transitions |-> bcc.transitions
                             + (IF tx_pattern # bcc.tx_pattern THEN 1 ELSE 0),
           ones_ticks |-> bcc.ones_ticks + (IF tx_pattern # 0 THEN 1 ELSE 0),
           zeroes_ticks |-> bcc.zeroes_ticks + (IF tx_pattern # 0 THEN 0 ELSE 1),
           tx_pattern |-> tx_pattern ]
    ELSE bcc

\* burst_length_checker: one pass of its while loop
burst_length_checker ==
    [ transitions |-> blc.transitions + (IF tx_idle # blc.tx_idle THEN 1 ELSE 0),
      ticks |-> blc.ticks + (IF ~tx_idle THEN 1 ELSE 0),
      tx_idle |-> tx_idle ]

Abs(x) == IF x < 0 THEN -x ELSE x

\* burst_clk_checker: abs(ones_ticks/total_ticks - 50e-2) < 10e-2, and the same
\* for zeroes_ticks
duty_cycle_ok ==
    LET total_ticks == bcc.ones_ticks + bcc.zeroes_ticks
    IN  /\ total_ticks > 0
        /\ Abs(10 * bcc.ones_ticks - 5 * total_ticks) < total_ticks
        /\ Abs(10 * bcc.zeroes_ticks - 5 * total_ticks) < total_ticks

\* burst_clk_checker: expected_cycles = sys_clk_freq/lfps_clk_freq (4.0 exactly)
expected_cycles == sys_clk_freq \div lfps_clk_freq

\* burst_clk_checker: abs(expected_cycles/computed_cycles - 1.0) < 10e-2 with
\* computed_cycles = 2*total_ticks/transitions
burst_clk_cycles_ok ==
    LET total_ticks == bcc.ones_ticks + bcc.zeroes_ticks
    IN  /\ bcc.transitions > 0 /\ total_ticks > 0
        /\ 10 * Abs(expected_cycles * bcc.transitions - 2 * total_ticks)
               < 2 * total_ticks

\* burst_length_checker: abs((2*ticks/transitions)/burst_length - 1.0) < 20e-2
burst_length_ok ==
    /\ blc.transitions > 0
    /\ 5 * Abs(2 * blc.ticks - bg_length * blc.transitions)
           < bg_length * blc.transitions

\* observer: the burst line since the last start pulse, this tick included
ob_next ==
    LET base == IF start
                THEN [ob EXCEPT !.started = TRUE, !.nonidle = 0, !.runs = 0,
                                !.dones = 0]
                ELSE ob
    IN  [ started |-> base.started,
          nonidle |-> base.nonidle + (IF tx_idle THEN 0 ELSE 1),
          runs |-> base.runs + (IF ~tx_idle /\ ob.idle THEN 1 ELSE 0),
          dones |-> base.dones + (IF bt_done THEN 1 ELSE 0),
          idle |-> tx_idle ]

---------------------------------------------------------------------------
(* LFPSTransmitter (usb3_pipe/lfps.py), as the specification describes the  *)
(* burst sequencer: while polling is asserted it starts a burst of the      *)
(* typical Polling.LFPS length once every typical repeat period.            *)

\* PollingLFPSBurst.t_typ and PollingLFPSRepeat.t_typ, in nanoseconds
PollingLFPSBurst_t_typ_ns == 1000
PollingLFPSRepeat_t_typ_ns == 10000

\* int(sys_clk_freq * t) for a time t given in nanoseconds
cycles(t_ns) == ((sys_clk_freq \div 1000000) * t_ns) \div 1000

\* the burst length and the repeat period, in ticks
polling_burst_cycles == cycles(PollingLFPSBurst_t_typ_ns)
polling_repeat_cycles == cycles(PollingLFPSRepeat_t_typ_ns)

\* the repeat timer, with half the repeat period
seq_timer_next_half ==
    IF polling
    THEN IF seq_timer >= (polling_repeat_cycles \div 2) - 1 THEN 0 ELSE seq_timer + 1
    ELSE 0

\* the repeat timer: runs around the repeat period while polling is asserted
seq_timer_next ==
    IF polling
    THEN IF seq_timer >= polling_repeat_cycles - 1 THEN 0 ELSE seq_timer + 1
    ELSE 0

\* a burst is started at the beginning of every repeat period
seq_start_next == polling /\ seq_timer = 0

\* the sequencer's registers and what it drives into the burst transmitter
SequencerSync ==
    /\ seq_timer' = seq_timer_next
    /\ start' = seq_start_next
    /\ length' = polling_burst_cycles

---------------------------------------------------------------------------
(* test_lfps_transmitter: its two generators *)

\* the yields of lfps_generator's loop, and the checker's two expectations
polling_yields == 10000
lfps_burst_length == cycles(PollingLFPSBurst_t_typ_ns)
lfps_burst_repeat == cycles(PollingLFPSRepeat_t_typ_ns)

\* lfps_generator leaves its loop on this tick and clears dut.run
lg_finishing == lg_pc = "loop" /\ lg_i = polling_yields

\* lfps_generator, from where it is suspended to its next yield
lfps_generator ==
    CASE lg_pc = "begin" ->
           \* yield dut.polling.eq(1)
           /\ polling' = TRUE
           /\ lg_pc' = "loop" /\ lg_i' = 0
      [] lg_pc = "loop" /\ lg_i < polling_yields ->
           /\ lg_i' = lg_i + 1
           /\ UNCHANGED << polling, lg_pc >>
      [] lg_finishing ->
           \* dut.run = False
           /\ lg_pc' = "end"
           /\ UNCHANGED << polling, lg_i >>

\* lfps_checker: one pass of its while loop
lfps_checker ==
    [ bursts |-> lc.bursts + (IF ~tx_idle /\ lc.tx_idle THEN 1 ELSE 0),
      burst_ticks |-> lc.burst_ticks + (IF ~tx_idle THEN 1 ELSE 0),
      total_ticks |-> lc.total_ticks + 1,
      tx_idle |-> tx_idle ]

\* lfps_checker: abs((burst_ticks/bursts)/burst_length - 1.0) < 10e-2
lfps_burst_length_ok ==
    /\ lc.bursts > 0
    /\ 10 * Abs(lc.burst_ticks - lfps_burst_length * lc.bursts)
           < lfps_burst_length * lc.bursts

\* lfps_checker: abs((total_ticks/bursts)/burst_repeat - 1.0) < 10e-2
lfps_burst_repeat_ok ==
    /\ lc.bursts > 0
    /\ 10 * Abs(lc.total_ticks - lfps_burst_repeat * lc.bursts)
           < lfps_burst_repeat * lc.bursts

---------------------------------------------------------------------------
(* Inputs *)

\* the differences from the expected word that the stimulus drives: << byte, bits >>;
\* none, one bit in each byte, and the link-config bits 8, 10, 11 of byte 2
Deltas ==
    { << 1, 0 >>, << 1, 1 >>, << 2, 1 >>, << 3, 1 >>, << 4, 128 >>,
      << 2, 4 >>, << 2, 8 >>, << 2, 13 >>, << 2, 2 >> }

\* sink.data values driven while the checker's cursor is at adr
SinkData(adr) == { XorByte(mem_init(adr), d[1], d[2]) : d \in Deltas }

\* sink.ctrl values driven
SinkCtrl == {0, 1, 2 ^ 4 - 1}

---------------------------------------------------------------------------
(* Reset state *)

CheckerReset ==
    /\ chk_adr = 0
    /\ chk_count = 0
    /\ chk_reset = FALSE
    /\ chk_loopback = FALSE
    /\ chk_scrambling = FALSE
    /\ chk_good = 0
    /\ chk_prev = [valid |-> FALSE, corrupted |-> FALSE, det |-> FALSE, count |-> 0,
                   adr |-> 0, word1 |-> << >>]
    /\ chk_streak = 0

GeneratorReset ==
    /\ gen_adr = 0
    /\ gen_count = count_max - 1
    /\ run = FALSE
    /\ gen_started = FALSE
    /\ gen_sent = 0
    /\ gen_whole = TRUE
    /\ gen_exact = TRUE
    /\ gen_age = count_max
    /\ gen_stalled = FALSE

\* the transmitter after reset, and the test's generators before their first step
LfpsReset ==
    /\ start = FALSE
    /\ length = 0
    /\ bt_run = FALSE
    /\ bt_count = 0
    /\ bt_done = FALSE
    /\ clk = 0
    /\ clk_timer = 0
    /\ bg_pc = "start"
    /\ bg_i = 0
    /\ bg_gap = 0
    /\ bcc = [transitions |-> 0, ones_ticks |-> 0, zeroes_ticks |-> 0, tx_pattern |-> 0]
    /\ blc = [transitions |-> 0, ticks |-> 0, tx_idle |-> FALSE]
    /\ ob = [started |-> FALSE, nonidle |-> 0, runs |-> 0, dones |-> 0, idle |-> TRUE]
    /\ polling = FALSE
    /\ seq_timer = 0
    /\ lg_pc = "begin"
    /\ lg_i = 0
    /\ lc = [bursts |-> 0, burst_ticks |-> 0, total_ticks |-> 0, tx_idle |-> FALSE]

SinkIdle ==
    /\ sink_valid = FALSE
    /\ sink_data = << 0, 0, 0, 0 >>
    /\ sink_ctrl = 0

GeneratorInputsIdle ==
    /\ send = FALSE
    /\ source_ready = FALSE
    /\ gen_reset = FALSE
    /\ gen_loopback = FALSE
    /\ gen_scrambling = FALSE

---------------------------------------------------------------------------
(* Specification of the checker alone, driven by an arbitrary stream *)

InitChecker ==
    /\ LfpsReset /\ bg_length = burst_length
    /\ os \in OrderedSets
    /\ CheckerReset
    /\ GeneratorReset
    /\ GeneratorInputsIdle
    /\ SinkIdle

CheckerTick ==
    /\ UNCHANGED << os, gen_regs, gen_ins, gen_obs, lfps_vars >>
    /\ CheckerSync
    /\ sink_valid' \in BOOLEAN
    /\ sink_data' \in SinkData(chk_adr')
    /\ sink_ctrl' \in SinkCtrl

SpecChecker == InitChecker /\ [][CheckerTick]_vars

---------------------------------------------------------------------------
(* Specification of the generator alone, with an arbitrary consumer *)

InitGenerator ==
    /\ LfpsReset /\ bg_length = burst_length
    /\ os \in OrderedSets
    /\ CheckerReset
    /\ GeneratorReset
    /\ SinkIdle
    /\ send \in BOOLEAN
    /\ source_ready \in BOOLEAN
    /\ gen_reset = FALSE
    /\ gen_loopback = FALSE
    /\ gen_scrambling = FALSE

GeneratorTick ==
    /\ UNCHANGED << os, chk_regs, chk_ins, chk_obs, lfps_vars >>
    /\ GeneratorSync
    /\ send' \in BOOLEAN
    /\ source_ready' \in BOOLEAN
    /\ gen_reset' \in (IF IsTS THEN BOOLEAN ELSE {FALSE})
    /\ gen_loopback' \in (IF IsTS THEN BOOLEAN ELSE {FALSE})
    /\ gen_scrambling' \in (IF IsTS THEN BOOLEAN ELSE {FALSE})

SpecGenerator == InitGenerator /\ [][GeneratorTick]_vars

---------------------------------------------------------------------------
(* Specification of the round trip: the generator's source connected to    *)
(* the sink of a checker of the same ordered set and n_ordered_sets        *)

\* source.connect(sink): valid, data and ctrl flow to the sink, ready back
Connected ==
    /\ sink_valid = source_valid
    /\ sink_data = source_data
    /\ sink_ctrl = source_ctrl
    /\ source_ready = sink_ready

InitLoop ==
    /\ LfpsReset /\ bg_length = burst_length
    /\ os \in OrderedSets
    /\ CheckerReset
    /\ GeneratorReset
    /\ send \in BOOLEAN
    /\ gen_reset = FALSE
    /\ gen_loopback = FALSE
    /\ gen_scrambling = FALSE
    /\ source_ready = sink_ready
    /\ sink_valid = source_valid
    /\ sink_data = source_data
    /\ sink_ctrl = source_ctrl

LoopTick ==
    /\ UNCHANGED << os, lfps_vars >>
    /\ GeneratorSync
    /\ CheckerSync
    /\ send' \in BOOLEAN
    /\ gen_reset' \in (IF IsTS THEN BOOLEAN ELSE {FALSE})
    /\ gen_loopback' \in (IF IsTS THEN BOOLEAN ELSE {FALSE})
    /\ gen_scrambling' \in (IF IsTS THEN BOOLEAN ELSE {FALSE})
    /\ source_ready' = sink_ready
    /\ sink_valid' = source_valid'
    /\ sink_data' = source_data'
    /\ sink_ctrl' = source_ctrl'

SpecLoop == InitLoop /\ [][LoopTick]_vars

Spec == SpecLoop

---------------------------------------------------------------------------
(* Specification of either module on its own: from reset, the checker is   *)
(* driven by an arbitrary stream while the generator stays in reset, or    *)
(* the generator by an arbitrary consumer while the checker stays in reset *)

CheckerAtRest == CheckerReset /\ SinkIdle

GeneratorAtRest == GeneratorReset /\ GeneratorInputsIdle

UnitTick ==
    \/ GeneratorAtRest /\ CheckerTick
    \/ CheckerAtRest /\ GeneratorTick

SpecUnits == InitChecker /\ [][UnitTick]_vars

---------------------------------------------------------------------------
(* Specification of test_lfps_burst_transmitter: the burst transmitter     *)
(* under the test's three generators                                       *)

InitLfps ==
    /\ os = "TS1"
    /\ CheckerReset
    /\ GeneratorReset
    /\ GeneratorInputsIdle
    /\ SinkIdle
    /\ LfpsReset
    /\ bg_length \in BurstLengths

LfpsTick ==
    /\ bg_pc # "end"
    /\ UNCHANGED << os, chk_regs, chk_ins, chk_obs, gen_regs, gen_ins, gen_obs,
                    bg_length, poll_vars >>
    /\ burst_generator
    /\ bcc' = (IF bg_finishing THEN bcc ELSE burst_clk_checker)
    /\ blc' = (IF bg_finishing THEN blc ELSE burst_length_checker)
    /\ BurstTransmitterSync
    /\ ob' = ob_next

SpecLfps == InitLfps /\ [][LfpsTick]_vars

---------------------------------------------------------------------------
(* Specification of test_lfps_transmitter: the LFPS transmitter with       *)
(* polling held, under the test's two generators                           *)

InitPolling ==
    /\ os = "TS1"
    /\ CheckerReset
    /\ GeneratorReset
    /\ GeneratorInputsIdle
    /\ SinkIdle
    /\ LfpsReset
    /\ bg_length = burst_length

PollingTick ==
    /\ lg_pc # "end"
    /\ UNCHANGED << os, chk_regs, chk_ins, chk_obs, gen_regs, gen_ins, gen_obs,
                    bg_pc, bg_i, bg_gap, bg_length, bcc, blc >>
    /\ lfps_generator
    /\ lc' = (IF lg_finishing THEN lc ELSE lfps_checker)
    /\ SequencerSync
    /\ BurstTransmitterSync
    /\ ob' = ob_next

SpecPolling == InitPolling /\ [][PollingTick]_vars

---------------------------------------------------------------------------
(* Properties *)

C2_DetectedAfterNRepetitions ==
    detected => chk_good >= count_max

C4_ErrorResets ==
    chk_prev.corrupted => (chk_count = 0 /\ chk_adr = 0)

\* C4 witness: such a symbol was consumed after at least one whole repetition.
C4_Witness ==
    /\ chk_prev.corrupted
    /\ chk_prev.count >= mem_depth
    /\ chk_count = 0

\* C5 (as claimed): the tick that transfers word 1 of a training pattern
\* leaves the checker's flags equal to the generator's reset / loopback /
\* scrambling inputs of that tick, and every other tick keeps the flags.
C5_LinkConfigRoundTrip ==
    [][ IsTS =>
          IF sink_valid /\ gen_adr = 1
          THEN /\ chk_reset' = gen_reset
               /\ chk_loopback' = gen_loopback
               /\ chk_scrambling' = gen_scrambling
          ELSE UNCHANGED << chk_reset, chk_loopback, chk_scrambling >> ]_vars

\* C6 (as claimed): when done is true again after a burst, the symbols
\* transferred in the burst are whole repetitions of the pattern, in order.
C6_WholeRepetitions ==
    (gen_started /\ done) => (gen_whole /\ gen_sent % mem_depth = 0)

\* C7 (as amended): with ready always asserted, a started burst keeps valid
\* asserted until done, and when done is true again exactly depth*N symbols
\* have been transferred: pattern[0 .. depth-1] N times, with ctrl = first_ctrl
\* on word 0 and 0 elsewhere, where for TS1/TS2 bits 8-15 of word 1 hold the
\* link-config byte of the tick instead of the pattern's; valid is then
\* deasserted unless send is asserted.
C7_BurstOfNRepetitions ==
    gen_started =>
        IF done
        THEN gen_sent = count_max /\ gen_whole /\ (~send => ~source_valid)
        ELSE source_valid /\ gen_whole /\ gen_sent = gen_count + 1

\* C7 (as claimed): the same, the symbols being pattern[0 .. depth-1] itself.
C7_BurstOfPatternWords ==
    gen_started =>
        IF done
        THEN gen_sent = count_max /\ gen_exact /\ (~send => ~source_valid)
        ELSE source_valid /\ gen_exact /\ gen_sent = gen_count + 1

\* C7 witness: a burst of a training pattern is over, send is deasserted, and
\* word 1 did not carry the pattern's own bits 8-15.
C7_Witness ==
    /\ gen_started
    /\ IsTS
    /\ done
    /\ ~send
    /\ gen_sent = count_max
    /\ ~gen_exact

\* C8 (as claimed): a tick with send and done starts the burst at adr = 0,
\* presenting the first symbol of the pattern.
C8_RestartAtZero ==
    (send /\ done) =>
        /\ gen_adr = 0
        /\ source_ctrl = first_ctrl
        /\ source_data = mem_init(0)

\* a is within 20% of b
Within20(a, b) == 5 * Abs(a - b) < b

\* C9: after a start pulse with length L > 0 the line is non-idle for one
\* contiguous run of ticks whose number is within 20% of L, done is pulsed
\* once, after the run, and the line then stays idle until the next start
\* pulse; at its end the test's burst length check passes.
C9_BurstLength ==
    /\ ob_next.started =>
          /\ ob_next.runs <= 1
          /\ ob_next.dones <= 1
          /\ ob_next.dones = 1 => (ob_next.runs = 1 /\ tx_idle)
          /\ (ob_next.runs = 1 /\ tx_idle) =>
                (Within20(ob_next.nonidle, length) /\ ob_next.dones = 1)
    /\ bg_pc = "end" => (burst_length_ok /\ ob.runs = 1)

\* C9 witness: the second burst is over, done has been pulsed, the line is idle.
C9_Witness ==
    /\ bg_i = 1
    /\ bg_pc = "gap"
    /\ tx_idle
    /\ ob.runs = 1 /\ ob.dones = 1
    /\ ob.nonidle = length

Within10(a, b) == 10 * Abs(a - b) < b

\* C11: with polling held, a burst is started once every repeat period: at
\* each start pulse after the first, the line has been non-idle for exactly
\* one contiguous run since the previous start pulse, of a length within 10%
\* of the burst length, and is idle again; and when the test ends, after
\* several bursts, burst_ticks / bursts is within 10% of the burst length
\* (sys_clk_freq * PollingLFPSBurst.t_typ) and total_ticks / bursts within
\* 10% of the repeat period (sys_clk_freq * PollingLFPSRepeat.t_typ).
C11_PollingSequence ==
    /\ (start /\ ob.started) =>
          /\ ob.runs = 1
          /\ ob.idle /\ tx_idle
          /\ Within10(ob.nonidle, lfps_burst_length)
    /\ lg_pc = "end" =>
          /\ lc.bursts > 1
          /\ lfps_burst_length_ok
          /\ lfps_burst_repeat_ok

\* C11 witness: the test has ended with polling still asserted, several
\* bursts counted, the last of them over and the line idle.
C11_Witness ==
    /\ lg_pc = "end"
    /\ polling
    /\ lc.bursts > 2
    /\ lc.burst_ticks >= lc.bursts * polling_burst_cycles
    /\ tx_idle

\* the three latched flags of a training-pattern checker
chk_flags == << chk_reset, chk_loopback, chk_scrambling >>

\* the flags a word carries: bit 8, bit 10 and the complement of bit 11
FlagsOf(word) == << WordBit(word, 8), WordBit(word, 10), ~WordBit(word, 11) >>

\* C12: for a TS1/TS2 checker the latched flags change only on a tick on
\* which sink.valid is asserted, the cursor is at 1 and error is false; on a
\* tick with the cursor at 1 and the symbol in error the flags keep their
\* previous values.
C12_LatchOnlyWithoutError ==
    [][IsTS => (chk_flags' # chk_flags => (sink_valid /\ chk_adr = 1 /\ ~error))]_vars

\* C13: for a TS1/TS2 checker, after any tick on which a valid symbol was
\* consumed with the cursor at 1 the flags are bit 8, bit 10 and the
\* complement of bit 11 of the word presented on that tick (not of the word
\* presented after it), and a tick with the cursor elsewhere, or without a
\* valid symbol, leaves the flags as they are.
C13_LatchOrdering ==
    /\ []((IsTS /\ chk_prev.valid /\ chk_prev.adr = 1) =>
             chk_flags = FlagsOf(chk_prev.word1))
    /\ [][~(sink_valid /\ chk_adr = 1) => UNCHANGED chk_flags]_vars

\* C13 witness: word 1 has just been consumed with bits 8, 10 and 11 set, the
\* flags hold its values, and the word now at the sink carries other values.
C13_Witness ==
    /\ IsTS
    /\ chk_prev.valid /\ chk_prev.adr = 1
    /\ FlagsOf(chk_prev.word1) = << TRUE, TRUE, FALSE >>
    /\ chk_flags = << TRUE, TRUE, FALSE >>
    /\ FlagsOf(sink_data) # chk_flags

\* the word with bit i inverted
FlipBit(word, i) == XorByte(word, (i \div 8) + 1, 2 ^ (i % 8))

\* C14: the error decision on a valid symbol is: wrong ctrl, or a difference
\* from pattern[adr] in a bit that is compared (on a tick without a valid
\* symbol there is no decision: error is false and nothing advances).  For TS1/TS2 the bits 8-15 of
\* the word at cursor 1 are not compared: inverting any of them, or replacing
\* the whole byte, leaves error (hence the next adr, count and detected) the
\* same.  Every other bit at every cursor position is compared: of two words
\* that differ in such a bit at least one is in error.  For TSEQ that is
\* every bit of every word.
C14_MaskPolicy ==
    LET as_driven == error_of(sink_data, sink_ctrl)
    IN  /\ ~sink_valid => ~error
        /\ sink_valid =>
              /\ error <=> (WrongCtrl \/ WrongData)
              /\ \A i \in 0..31 :
                    IF MaskedBit(i)
                    THEN error_of(FlipBit(sink_data, i), sink_ctrl) = as_driven
                    ELSE error_of(FlipBit(sink_data, i), sink_ctrl) \/ as_driven
              /\ (IsTS /\ chk_adr = 1) =>
                    \A v \in {0, 2 ^ 8 - 1} :
                        error_of(WithBits8to15(sink_data, v), sink_ctrl) = as_driven
        /\ ~IsTS => \A i \in 0..31 : ~MaskedBit(i)

\* C14 witness: a TS1/TS2 word 1 whose bits 8-15 differ from the pattern's
\* has been consumed and counted as error-free.
C14_Witness ==
    /\ IsTS
    /\ chk_prev.valid /\ chk_prev.adr = 1 /\ ~chk_prev.corrupted
    /\ chk_prev.word1[2] # mem_init(1)[2]
    /\ chk_count = chk_prev.count + 1
    /\ chk_adr = 2

\* C15: on every tick on which sink.valid is deasserted, adr, count, detected
\* and the latched flags keep their values whatever sink.data and sink.ctrl
\* carry, and sink.ready is asserted on every tick.
C15_PassiveTap ==
    /\ []sink_ready
    /\ [][~sink_valid => (UNCHANGED chk_regs /\ detected' = detected)]_vars

\* C15 witness: a tick without a valid symbol has been executed in the middle
\* of a pattern and the cursor, the count and the flags are where they were.
C15_Witness ==
    /\ IsTS
    /\ ~chk_prev.valid
    /\ chk_prev.count > 1 /\ chk_count = chk_prev.count
    /\ chk_prev.adr > 1 /\ chk_adr = chk_prev.adr
    /\ chk_reset

\* C16: the generator's idle state is stable: done is true in the reset
\* state; on every tick with done true and send false the counter stays at
\* depth*N - 1, done stays true, source.valid is deasserted and adr is 0 from
\* the following tick on; done goes from true to false only on a tick with
\* send.
C16_IdleStable ==
    /\ [](~gen_started => done)
    /\ [][(done /\ ~send) =>
             /\ ~source_valid
             /\ gen_count' = count_max - 1
             /\ done'
             /\ gen_adr' = 0]_vars
    /\ [][(done /\ ~done') => send]_vars

\* C16 witness: after a burst, a tick with done and without send has been
\* executed (it clears run) and the generator is idle with done true.
C16_Witness ==
    /\ gen_started
    /\ done /\ ~run
    /\ gen_adr = 0
    /\ ~send /\ ~source_valid

\* C17: in every reachable state of the checker and of the generator adr is
\* in [0, depth) and count in [0, depth*N), and no tick takes count from
\* depth*N - 1 to a greater value.
C17_Bounds ==
    /\ [](/\ chk_adr \in 0 .. mem_depth - 1
          /\ chk_count \in 0 .. count_max - 1
          /\ gen_adr \in 0 .. mem_depth - 1
          /\ gen_count \in 0 .. count_max - 1)
    /\ [][/\ chk_count = count_max - 1 => chk_count' <= chk_count
          /\ gen_count = count_max - 1 => gen_count' <= gen_count]_vars

\* C17 witness: the checker has consumed a valid symbol with count at
\* depth*N - 1 and the cursor at depth - 1; both are 0 now.
C17_Witness ==
    /\ chk_prev.valid
    /\ chk_prev.count = count_max - 1 /\ chk_prev.adr = mem_depth - 1
    /\ chk_count = 0 /\ chk_adr = 0

\* C18: in the checker adr = count mod depth in every reachable state, so
\* detected is asserted only while adr = depth - 1.
C18_CursorTracksCount ==
    /\ chk_adr = chk_count % mem_depth
    /\ detected => chk_adr = mem_depth - 1

\* C18 witness: detected is asserted, with the cursor on the last word of the
\* pattern.
C18_Witness ==
    /\ detected
    /\ chk_adr = mem_depth - 1
    /\ chk_prev.valid
    /\ chk_good = count_max - 1

\* C19: detected lasts for at most one consumed symbol: on a tick with
\* detected and sink.valid, count is 0 and detected is deasserted on the next
\* tick, whether or not the symbol is in error; and detected is asserted
\* exactly when the number of error-free symbols consumed in a row is
\* depth*N - 1 modulo depth*N, i.e. again every depth*N symbols of an
\* unbroken error-free stream.
C19_DetectedPeriod ==
    /\ [](detected <=> chk_streak = count_max - 1)
    /\ [][(detected /\ sink_valid) => (chk_count' = 0 /\ ~detected')]_vars

\* C19 witness: detected is asserted for the second time in an unbroken
\* error-free stream (depth*N or more symbols in a row before it).
C19_Witness ==
    /\ detected
    /\ chk_good = count_max
    /\ chk_prev.valid /\ ~chk_prev.corrupted

\* C20: the duration of a burst does not depend on the handshake: after a
\* tick with send and done, done is false for the depth*N - 1 following
\* ticks and true on the depth*N-th, whatever source.ready does; a tick on
\* which a valid symbol is stalled still advances the counter and puts adr
\* to 0, so a burst with a stall transfers fewer than depth*N symbols.
C20_BurstDuration ==
    /\ [](done <=> gen_age = count_max)
    /\ []((gen_started /\ done /\ gen_stalled) => gen_sent < count_max)
    /\ [][(source_valid /\ ~source_ready) =>
             /\ gen_adr' = 0
             /\ ~done => gen_count' = gen_count + 1]_vars

\* C20 witness: a burst with stalled symbols is over, depth*N ticks after its
\* start, with fewer than depth*N symbols transferred.
C20_Witness ==
    /\ gen_started
    /\ done /\ gen_age = count_max
    /\ gen_stalled
    /\ gen_sent > 0 /\ gen_sent < count_max - 1

===========================================================================
